---- MODULE Spec2Model ----
(***************************************************************************)
(* A model of the BICLE node (src/Bicle/bicle.py): the ledger of blocks,   *)
(* the dedup index (sent_news), the pending map, their three JSON files,   *)
(* and the operations that read and write them.                            *)
(*                                                                         *)
(* Text is a sequence of small naturals (characters).  A SHA-256 digest is *)
(* the pair <<"sha256", preimage>>: an ideal, collision-free hash.  The    *)
(* hex form of a digest is a fixed-width unit, so the concatenation of a   *)
(* list of hex digests is modelled as the sequence of those units.         *)
(* Timestamps count ticks of the UTC clock, TicksPerDay to the day.        *)
(***************************************************************************)
EXTENDS Integers, Sequences, FiniteSets, TLC

VARIABLES
    blocks,        \* the in-memory ledger (list of blocks)
    sent_news,     \* the dedup index: link -> timestamp
    pending,       \* the pending map, in insertion order (a Python dict)
    file_sent,     \* sent_news.json : <<>> (missing/unreadable) or <<data>>
    file_pending,  \* pending.json
    file_blocks,   \* blocks.json
    now,           \* the UTC clock, in ticks
    booted,        \* init_storage has run in the current process
    faults,        \* number of saves that may still fail
    mine_pc,       \* position of the /mine handler
    auto_pc,       \* position of the auto-mine job
    tampered,      \* position of the block edited from outside, 0 when none
    result         \* what the last operation returned, and on what input

vars == <<blocks, sent_news, pending, file_sent, file_pending, file_blocks,
          now, booted, faults, mine_pc, auto_pc, tampered, result>>

\* the three stores in memory, and their files
stores == <<blocks, sent_news, pending>>
files == <<file_sent, file_pending, file_blocks>>

----------------------------------------------------------------------------
(* Bounds of the model *)

MaxBlocks == 3      \* the ledger holds at most this many blocks
MaxCands == 2       \* longest candidate list handed to build_block_from_items
MaxNewsArg == 2     \* largest max_news handed to build_block_from_items
MaxPending == 6     \* most entries in the pending map
MaxTicks == 1       \* the clock advances at most this many times
MaxFaults == 1      \* most failed saves in one behaviour
MaxRss == 1         \* most entries fetch_rss_items returns
MaxEdits == 2       \* most edits of the stored ledger from outside
MaxStatsItems == 12 \* feed entries of the source statistics
MaxDigests == 3     \* longest digest list handed to compute_block_hash alone
TickDays == 30      \* days the clock advances in one step
TicksPerDay == 2    \* resolution of the clock

(* Program constants *)

TITLE_MAX == 280
SUMMARY_MAX == 300
TTL_DAYS == 30
MINE_MAX_NEWS == 5
STATS_TOP == 10
GENESIS_DAY == 0

----------------------------------------------------------------------------
(* Text and digests *)

None == <<>>

Range(s) == { s[i] : i \in 1..Len(s) }

Min(a, b) == IF a < b THEN a ELSE b

\* s[:n]
Take(s, n) == SubSeq(s, 1, Min(Len(s), n))

\* lexicographic order on text (Python's str comparison)
StrLess(a, b) ==
    \E i \in 1..(Len(b)) :
        /\ \A j \in 1..(i-1) : j <= Len(a) /\ a[j] = b[j]
        /\ \/ i > Len(a)
           \/ a[i] < b[i]

SHA256(data) == <<"sha256", data>>

\* the order of two hex digests as strings
HexLess(d1, d2) == StrLess(d1[2], d2[2])

RECURSIVE InsertSorted(_, _)
InsertSorted(d, s) ==
    IF s = <<>> THEN <<d>>
    ELSE IF HexLess(d, s[1]) THEN <<d>> \o s
    ELSE <<s[1]>> \o InsertSorted(d, Tail(s))

RECURSIVE sorted(_)
sorted(s) ==
    IF s = <<>> THEN <<>>
    ELSE InsertSorted(s[Len(s)], sorted(SubSeq(s, 1, Len(s) - 1)))

create_iHash(title, link, source, published) ==
    SHA256(title \o link \o source \o published)


\* mutant of compute_block_hash: the digests are hashed in the order given
compute_block_hash_unsorted(iHashes) == SHA256(iHashes)

compute_block_hash(iHashes) ==
    LET sorted_hashes == sorted(iHashes)
        concat == sorted_hashes
    IN  SHA256(concat)

----------------------------------------------------------------------------
(* The genesis block and the news items of the environment *)

GUARDIAN == <<6>>
USER_SUBMISSION == <<0>>

create_genesis_block ==
    LET title == <<7>>
        link == <<8>>
        source == GUARDIAN
        published == <<9>>
        ihash == SHA256(title \o link \o source \o published)
    IN  [ block_number |-> 0,
          timestamp |-> GENESIS_DAY,
          news |-> << [ title |-> title, link |-> link, source |-> source,
                        published |-> published, summary |-> <<5>>,
                        iHash |-> ihash ] >>,
          blockhash |-> SHA256(<<ihash>>),
          previous |-> None ]

NewsItem(title, link, source, published) ==
    [ title |-> title, link |-> link, source |-> source,
      published |-> published, summary |-> <<>> ]

ItemA == NewsItem(<<1>>, <<2, 3>>, <<4>>, <<>>)
\* another link, the same title + link + source + published text as ItemA
ItemB == NewsItem(<<1, 2>>, <<3>>, <<4>>, <<>>)
\* the link of ItemB under another title and source
ItemC == NewsItem(<<5>>, <<3>>, GUARDIAN, <<>>)
\* the genesis story as a feed entry
ItemG == NewsItem(<<7>>, <<8>>, GUARDIAN, <<9>>)

\* what fetch_rss_items can return entries of
FeedItems == {ItemA, ItemB, ItemC, ItemG}

\* what /submit derives from its argument: the link alone, or a parsed feed
UserItem(link) == NewsItem(link, link, USER_SUBMISSION, <<>>)
SubmitItems == {UserItem(<<3>>), ItemA}

\* a longer queue of submissions: bare links, and two parsed feeds whose
\* title + link + source + published texts coincide
QueueLinks == { <<10>>, <<11>>, <<12>>, <<13>>, <<14>> }
QueueItems == { UserItem(l) : l \in QueueLinks } \cup {ItemA, ItemB}

\* feed entries with a title of exactly TITLE_MAX characters, and of one more
ItemEdge == NewsItem([ i \in 1..TITLE_MAX |-> 1 ], <<20>>, <<4>>, <<>>)
ItemLong == NewsItem([ i \in 1..(TITLE_MAX + 1) |-> 1 ], <<21>>, <<4>>, <<>>)

\* feed entries of many sources: ten sources of their own, then the source
\* of the first entry again, then The Guardian
StatsSource(j) ==
    IF j <= STATS_TOP THEN <<40 + j>>
    ELSE IF j = STATS_TOP + 1 THEN <<41>>
    ELSE GUARDIAN
StatsItem(j) == NewsItem(<<j>>, <<30 + j>>, StatsSource(j), <<>>)

\* the feed results: runs of 1, 3 or 5 entries in a row, from any entry on
StatsLists ==
    { [ k \in 1..len |-> StatsItem(((i + k - 2) % MaxStatsItems) + 1) ] :
        i \in 1..MaxStatsItems, len \in {1, 3, MINE_MAX_NEWS} }

SeqsUpTo(S, n) == UNION { [1..k -> S] : k \in 0..n }

\* the candidate lists handed to Mine, and the results of fetch_rss_items
CandidateLists == SeqsUpTo({ItemA, ItemB, ItemC}, MaxCands)
RssLists == SeqsUpTo(FeedItems, MaxRss)
\* candidate lists with titles at and over the stored length
LongLists == SeqsUpTo({ItemA, ItemC, ItemEdge, ItemLong}, MaxCands)
\* the feeds while the queue is long: nothing, or the link of ItemB again
QueueFeeds == SeqsUpTo({ItemC}, MaxRss)

----------------------------------------------------------------------------
(* Files *)

SaveOutcomes == {"ok", "open_failed", "write_failed"}

load_json(file, default) == IF file = <<>> THEN default ELSE file[1]


\* mutant of save_json: nothing is ever written
save_json_never(file, data, outcome) == file

\* the file after save_json(path, data): written, untouched (open raised),
\* or truncated and unreadable (the dump raised)
save_json(file, data, outcome) ==
    CASE outcome = "ok" -> <<data>>
      [] outcome = "open_failed" -> file
      [] OTHER -> <<>>

Failures(outs) == Cardinality({ i \in DOMAIN outs : outs[i] # "ok" })

\* the outcomes of n successive saves, with at most `faults` failures
Outcomes(n) == { o \in [1..n -> SaveOutcomes] : Failures(o) <= faults }

----------------------------------------------------------------------------
(* Ledger functions *)


\* mutant of verify_from: only the previous links are checked
RECURSIVE verify_from_links(_, _)
verify_from_links(bs, i) ==
    IF i > Len(bs) THEN 0
    ELSE IF bs[i].previous # bs[i-1].blockhash THEN i
    ELSE verify_from_links(bs, i + 1)

RECURSIVE verify_from(_, _)
verify_from(bs, i) ==
    IF i > Len(bs) THEN 0
    ELSE IF bs[i].previous # bs[i-1].blockhash THEN i
    ELSE IF bs[i].blockhash #
            compute_block_hash([ k \in 1..Len(bs[i].news) |-> bs[i].news[k].iHash ])
         THEN i
    ELSE verify_from(bs, i + 1)

\* position (from 1) of the block verify_chain stops at, 0 when it returns True
verify_failed_at(bs) == IF Len(bs) <= 1 THEN 0 ELSE verify_from(bs, 2)

verify_chain(bs) == verify_failed_at(bs) = 0

\* /block n : the first block carrying that number, or None
block_cmd(bs, n) ==
    IF \E i \in 1..Len(bs) : bs[i].block_number = n
    THEN bs[CHOOSE i \in 1..Len(bs) :
                /\ bs[i].block_number = n
                /\ \A j \in 1..(i-1) : bs[j].block_number # n]
    ELSE None

AllNews(bs) ==
    LET RECURSIVE Flat(_)
        Flat(i) == IF i > Len(bs) THEN <<>> ELSE bs[i].news \o Flat(i + 1)
    IN  Flat(1)

\* the dict of get_stats, as <<source, count>> pairs in first-seen order
get_stats(bs) ==
    LET news == AllNews(bs)
        RECURSIVE Tally(_, _)
        Tally(i, acc) ==
            IF i > Len(news) THEN acc
            ELSE LET src == news[i].source IN
                 IF \E k \in 1..Len(acc) : acc[k][1] = src
                 THEN Tally(i + 1, [ k \in 1..Len(acc) |->
                        IF acc[k][1] = src THEN <<src, acc[k][2] + 1>> ELSE acc[k] ])
                 ELSE Tally(i + 1, Append(acc, <<src, 1>>))
    IN  Tally(1, <<>>)


\* mutant of insert_by_count: a source goes before the sources of its count
RECURSIVE insert_before_ties(_, _)
insert_before_ties(e, s) ==
    IF s = <<>> THEN <<e>>
    ELSE IF s[1][2] > e[2] THEN <<s[1]>> \o insert_before_ties(e, Tail(s))
    ELSE <<e>> \o s

\* one step of the stable sort by count, largest first: e, which came after
\* every pair of s, goes after the pairs of its count
RECURSIVE insert_by_count(_, _)
insert_by_count(e, s) ==
    IF s = <<>> THEN <<e>>
    ELSE IF s[1][2] >= e[2] THEN <<s[1]>> \o insert_by_count(e, Tail(s))
    ELSE <<e>> \o s

\* sorted(sources.items(), key=lambda x: x[1], reverse=True)
RECURSIVE sorted_sources(_)
sorted_sources(stats) ==
    IF stats = <<>> THEN <<>>
    ELSE insert_by_count(stats[Len(stats)],
                         sorted_sources(SubSeq(stats, 1, Len(stats) - 1)))

RECURSIVE sum_values(_)
sum_values(stats) ==
    IF stats = <<>> THEN 0 ELSE stats[1][2] + sum_values(Tail(stats))

----------------------------------------------------------------------------
(* Building a block *)

Links(seq) == { seq[i].link : i \in 1..Len(seq) }


\* mutant of is_sent: the dedup index is never consulted
is_sent_never(link, sent) == FALSE

\* "link in sent_news"
is_sent(link, sent) == link \in DOMAIN sent

LedgerEntry(it, ih) ==
    [ title |-> Take(it.title, TITLE_MAX),
      link |-> it.link,
      source |-> it.source,
      published |-> it.published,
      summary |-> Take(it.summary, SUMMARY_MAX),
      iHash |-> ih ]

\* the loop over the candidates, from candidate i on
RECURSIVE select_loop(_, _, _, _, _, _)
select_loop(items, i, selected, iHashes, sent, max_news) ==
    IF i > Len(items) THEN [selected |-> selected, iHashes |-> iHashes]
    ELSE
      LET it == items[i]
          link == it.link
          ih == create_iHash(it.title, link, it.source, it.published)
      IN  IF is_sent(link, sent)
          THEN select_loop(items, i + 1, selected, iHashes, sent, max_news)
          ELSE IF ih \in Range(iHashes)
          THEN select_loop(items, i + 1, selected, iHashes, sent, max_news)
          ELSE LET selected2 == Append(selected, LedgerEntry(it, ih))
                   iHashes2 == Append(iHashes, ih)
               IN  IF Len(selected2) >= max_news
                   THEN [selected |-> selected2, iHashes |-> iHashes2]
                   ELSE select_loop(items, i + 1, selected2, iHashes2, sent, max_news)

next_block_number(bs) == Len(bs) + 1


\* mutants of tip_hash: no link to the tip; the first block instead of the last
tip_hash_none(bs) == None
tip_hash_first(bs) == IF bs # <<>> THEN bs[1].blockhash ELSE None

tip_hash(bs) == IF bs # <<>> THEN bs[Len(bs)].blockhash ELSE None


\* mutant of append_block: the new block overwrites the tip
append_block_over_tip(bs, block) ==
    IF bs = <<>> THEN <<block>> ELSE [ bs EXCEPT ![Len(bs)] = block ]

\* blocks.append(block)
append_block(bs, block) == Append(bs, block)

\* sent_news after "sent_news[n['link']] = timestamp" for every selected n
mark_sent(sent, selected, timestamp) ==
    [ l \in DOMAIN sent \cup Links(selected) |->
        IF l \in Links(selected) THEN timestamp ELSE sent[l] ]


\* mutant of drop_pending: mined submissions stay pending
drop_pending_never(pend, selected) == pend

\* pending after "del pending[n['link']]" for every selected n
drop_pending(pend, selected) ==
    SelectSeq(pend, LAMBDA e : e.link \notin Links(selected))

\* the rest of build_block_from_items once the loop has selected sel
assemble_block(sel, bs, sent, pend, timestamp) ==
    IF sel.selected = <<>>
    THEN [ block |-> None, blocks |-> bs, sent_news |-> sent, pending |-> pend ]
    ELSE LET block == [ block_number |-> next_block_number(bs),
                        timestamp |-> timestamp,
                        news |-> sel.selected,
                        blockhash |-> compute_block_hash(sel.iHashes),
                        previous |-> tip_hash(bs) ]
         IN  [ block |-> block,
               blocks |-> append_block(bs, block),
               sent_news |-> mark_sent(sent, sel.selected, timestamp),
               pending |-> drop_pending(pend, sel.selected) ]

\* build_block_from_items on the given globals: the block it returns (None
\* when nothing was selected) and the globals afterwards
build_block_from_items(items, max_news, bs, sent, pend, timestamp) ==
    assemble_block(select_loop(items, 1, <<>>, <<>>, sent, max_news),
                   bs, sent, pend, timestamp)

\* the globals and files after a call of build_block_from_items
Build(items, max_news, op) ==
    \E r \in { build_block_from_items(items, max_news, blocks, sent_news, pending, now) } :
        IF r.block = None
        THEN /\ UNCHANGED <<stores, files, faults>>
             /\ result' = [ op |-> op, ret |-> "NoBlock", arg |-> <<items, max_news, 0>> ]
        ELSE /\ Len(blocks) < MaxBlocks
             /\ blocks' = r.blocks
             /\ sent_news' = r.sent_news
             /\ pending' = r.pending
             /\ \E o \in Outcomes(3) :
                   /\ file_sent' = save_json(file_sent, r.sent_news, o[1])
                   /\ file_pending' = save_json(file_pending, r.pending, o[2])
                   /\ file_blocks' = save_json(file_blocks, r.blocks, o[3])
                   /\ faults' = faults - Failures(o)
             /\ result' = [ op |-> op, ret |-> "Block",
                            arg |-> <<items, max_news, Len(pending) - Len(r.pending)>> ]

----------------------------------------------------------------------------
(* Operations *)

Ret(op, ret, arg) == [ op |-> op, ret |-> ret, arg |-> arg ]

\* what datetime.now() (local wall clock, no zone) is ahead of UTC, in ticks
TzOffsets == {-1, 0, 1}

\* the entries of the loaded dedup index that init_storage keeps.  The
\* cutoff is the text of the local wall clock (tz ahead of UTC) less
\* TTL_DAYS days, the stamps are UTC texts of second precision ending in
\* "+00:00", and the two are compared as texts: a stamp on the tick of the
\* cutoff is kept or dropped (strict) with the sub-second part of the clock
prune(sent, strict, tz) ==
    LET cutoff == (now + tz) - TTL_DAYS * TicksPerDay
        keep == { k \in DOMAIN sent :
                    IF strict THEN sent[k] > cutoff ELSE sent[k] >= cutoff }
    IN  [ k \in keep |-> sent[k] ]

EmptyMap == [ k \in {} |-> 0 ]


\* mutant of seed_genesis: the genesis block is appended at every start
seed_genesis_always(bs) == Append(bs, create_genesis_block)

\* "if not blocks: blocks.append(create_genesis_block())"
seed_genesis(bs) == IF bs = <<>> THEN Append(bs, create_genesis_block) ELSE bs

\* process start: main() runs init_storage
init_storage ==
    \E strict \in BOOLEAN, tz \in TzOffsets, o \in Outcomes(4) :
      LET sent1 == prune(load_json(file_sent, EmptyMap), strict, tz)
          pend1 == load_json(file_pending, <<>>)
          blocks1 == load_json(file_blocks, <<>>)
          fb1 == save_json(file_blocks, blocks1, o[3])
      IN  /\ sent_news' = sent1
          /\ pending' = pend1
          /\ file_sent' = save_json(file_sent, sent1, o[1])
          /\ file_pending' = save_json(file_pending, pend1, o[2])
          /\ blocks' = seed_genesis(blocks1)
          /\ IF blocks1 = <<>>
             THEN file_blocks' = save_json(fb1, blocks', o[4])
             ELSE o[4] = "ok" /\ file_blocks' = fb1
          /\ faults' = faults - Failures(o)
          /\ booted' = TRUE
          /\ mine_pc' = "idle"
          /\ auto_pc' = "idle"
          /\ result' = Ret("load", IF blocks1 = <<>> THEN "seeded" ELSE "loaded", <<>>)
          /\ UNCHANGED now


\* mutant of submit_outcome: the pending map is not checked
submit_outcome_unchecked(link, sent, pend) ==
    IF link \in DOMAIN sent THEN "AlreadyBroadcast" ELSE "Pending"

\* the duplicate checks of /submit
submit_outcome(link, sent, pend) ==
    IF is_sent(link, sent) THEN "AlreadyBroadcast"
    ELSE IF link \in Links(pend) THEN "AlreadyPending"
    ELSE "Pending"


\* mutant of dict_set: the new entry replaces the map
dict_set_alone(pend, entry) == <<entry>>

\* pending[link] = entry, on an insertion-ordered dict
dict_set(pend, entry) ==
    IF entry.link \in Links(pend)
    THEN [ i \in 1..Len(pend) |-> IF pend[i].link = entry.link THEN entry ELSE pend[i] ]
    ELSE Append(pend, entry)

\* /submit : the handler, whose only await after the checks is the reply
submit(it) ==
    /\ booted
    /\ LET link == it.link
           ih == create_iHash(it.title, link, it.source, it.published)
           out == submit_outcome(link, sent_news, pending)
       IN  /\ result' = Ret("submit", out, link)
           /\ IF out = "Pending"
              THEN /\ Len(pending) < MaxPending
                   /\ pending' = dict_set(pending,
                          [ title |-> it.title, link |-> link, source |-> it.source,
                            published |-> it.published, iHash |-> ih ])
                   /\ \E o \in Outcomes(1) :
                         /\ file_pending' = save_json(file_pending, pending', o[1])
                         /\ faults' = faults - Failures(o)
              ELSE UNCHANGED <<pending, file_pending, faults>>
    /\ UNCHANGED <<blocks, sent_news, file_sent, file_blocks, now, booted,
                   mine_pc, auto_pc>>

\* Mine(candidates, maxNews) of the core: one call of build_block_from_items
Mine(items, max_news) ==
    /\ booted
    /\ Build(items, max_news, "mine")
    /\ UNCHANGED <<now, booted, mine_pc, auto_pc>>

\* /verify
verify ==
    /\ booted
    /\ result' = Ret("verify", verify_chain(blocks), verify_failed_at(blocks))
    /\ UNCHANGED <<stores, files, now, booted, faults, mine_pc, auto_pc>>

\* /block n
block(n) ==
    /\ booted
    /\ result' = Ret("block", block_cmd(blocks, n), n)
    /\ UNCHANGED <<stores, files, now, booted, faults, mine_pc, auto_pc>>

\* /stats
stats_cmd ==
    /\ booted
    /\ blocks # <<>>
    /\ LET sources == get_stats(blocks)
           sorted_srcs == sorted_sources(sources)
       IN  result' = Ret("stats", sources,
                         [ top |-> Take(sorted_srcs, STATS_TOP),
                           total |-> sum_values(sources) ])
    /\ UNCHANGED <<stores, files, now, booted, faults, mine_pc, auto_pc>>

\* /hash : number and blockhash of the last block
hash_cmd ==
    /\ booted
    /\ result' = Ret("hash",
                      IF blocks = <<>> THEN None
                      ELSE <<blocks[Len(blocks)].block_number,
                             blocks[Len(blocks)].blockhash>>,
                      <<>>)
    /\ UNCHANGED <<stores, files, now, booted, faults, mine_pc, auto_pc>>

\* /proof : blocks[-5:], each as number, timestamp, news count, blockhash
proof ==
    /\ booted
    /\ LET last == SubSeq(blocks, IF Len(blocks) > 5 THEN Len(blocks) - 4 ELSE 1,
                          Len(blocks))
       IN  result' = Ret("proof",
                         [ i \in 1..Len(last) |->
                             <<last[i].block_number, last[i].timestamp,
                               Len(last[i].news), last[i].blockhash>> ],
                         <<>>)
    /\ UNCHANGED <<stores, files, now, booted, faults, mine_pc, auto_pc>>


\* mutant of status: the pending map is emptied
status_clearing ==
    /\ booted
    /\ pending' = <<>>
    /\ result' = Ret("status", "none", <<>>)
    /\ UNCHANGED <<blocks, sent_news, files, now, booted, faults, mine_pc, auto_pc>>

\* /status
status ==
    /\ booted
    /\ result' = Ret("status",
                      [ history |-> Cardinality(DOMAIN sent_news),
                        pending |-> Len(pending),
                        blocks |-> Len(blocks),
                        integrity |-> verify_chain(blocks) ],
                      <<>>)
    /\ UNCHANGED <<stores, files, now, booted, faults, mine_pc, auto_pc>>

\* time passes
Tick ==
    /\ now < MaxTicks * TickDays * TicksPerDay
    /\ now' = now + TickDays * TicksPerDay
    /\ result' = Ret("tick", "none", <<>>)
    /\ UNCHANGED <<stores, files, booted, faults, mine_pc, auto_pc>>

\* the waits around the time to live: a day less, one tick less, the time
\* to live itself, one tick more, a day more
ExpirySteps ==
    { (TTL_DAYS - 1) * TicksPerDay, TTL_DAYS * TicksPerDay - 1,
      TTL_DAYS * TicksPerDay,
      TTL_DAYS * TicksPerDay + 1, (TTL_DAYS + 1) * TicksPerDay }

\* time passes, by d ticks
Wait(d) ==
    /\ now + d <= MaxTicks * (TTL_DAYS + 1) * TicksPerDay
    /\ now' = now + d
    /\ result' = Ret("wait", "none", d)
    /\ UNCHANGED <<stores, files, booted, faults, mine_pc, auto_pc>>

----------------------------------------------------------------------------
(* The handlers and the job, step by step between their awaits *)


\* mutant of gather: the fetched entries come first
gather_feed_first(rss, sent, pend) ==
    SelectSeq(rss, LAMBDA it : it.link \notin DOMAIN sent /\ it.link \notin Links(pend))
    \o [ i \in 1..Len(pend) |->
           NewsItem(pend[i].title, pend[i].link, pend[i].source, pend[i].published) ]

\* mutant of gather: the newest pending submission comes first
gather_newest_first(rss, sent, pend) ==
    [ i \in 1..Len(pend) |->
        NewsItem(pend[Len(pend) + 1 - i].title, pend[Len(pend) + 1 - i].link,
                 pend[Len(pend) + 1 - i].source, pend[Len(pend) + 1 - i].published) ]
    \o SelectSeq(rss, LAMBDA it : it.link \notin DOMAIN sent /\ it.link \notin Links(pend))

\* the candidates of mine and auto_mine_job: the pending submissions, then
\* the fetched entries that are neither sent nor pending
gather(rss, sent, pend) ==
    [ i \in 1..Len(pend) |->
        NewsItem(pend[i].title, pend[i].link, pend[i].source, pend[i].published) ]
    \o SelectSeq(rss, LAMBDA it : ~is_sent(it.link, sent) /\ it.link \notin Links(pend))

\* /mine up to its first await (the "Mining block..." reply)
mine_begin ==
    /\ booted
    /\ mine_pc = "idle"
    /\ mine_pc' = "ack"
    /\ result' = Ret("await", "mine", <<>>)
    /\ UNCHANGED <<stores, files, now, booted, faults, auto_pc>>

\* /mine from that await to the next: fetch, gather, build
mine(rss) ==
    /\ booted
    /\ mine_pc = "ack"
    /\ Build(gather(rss, sent_news, pending), MINE_MAX_NEWS, "mine")
    /\ mine_pc' = "reply"
    /\ UNCHANGED <<now, booted, auto_pc>>

\* /mine : the replies after the build
mine_end ==
    /\ booted
    /\ mine_pc = "reply"
    /\ mine_pc' = "idle"
    /\ result' = Ret("await", "mined", <<>>)
    /\ UNCHANGED <<stores, files, now, booted, faults, auto_pc>>

\* the job up to its only await (the channel message)
auto_mine_job(rss) ==
    /\ booted
    /\ auto_pc = "idle"
    /\ Build(gather(rss, sent_news, pending), MINE_MAX_NEWS, "auto_mine")
    /\ auto_pc' = IF result'.ret = "Block" THEN "send" ELSE "idle"
    /\ UNCHANGED <<now, booted, mine_pc>>

auto_mine_end ==
    /\ booted
    /\ auto_pc = "send"
    /\ auto_pc' = "idle"
    /\ result' = Ret("await", "broadcast", <<>>)
    /\ UNCHANGED <<stores, files, now, booted, faults, mine_pc>>

----------------------------------------------------------------------------
(* An edit of the stored ledger from outside the program *)

TamperText == <<9, 9>>
TamperFields == {"title", "link", "source", "published", "summary"}

RemoveAt(s, k) == SubSeq(s, 1, k - 1) \o SubSeq(s, k + 1, Len(s))

\* the news of a block after one edit
TamperedNews(news) ==
    { [ news EXCEPT ![k] = [ news[k] EXCEPT ![f] = TamperText ] ] :
        k \in 1..Len(news), f \in TamperFields }
    \cup { [ news EXCEPT ![k].iHash = SHA256(TamperText) ] : k \in 1..Len(news) }
    \cup { RemoveAt(news, k) : k \in 1..Len(news) }
    \cup { Append(news, LedgerEntry(NewsItem(TamperText, TamperText, GUARDIAN, <<>>),
                                     SHA256(TamperText))) }

Tamper ==
    /\ booted
    /\ tampered = 0
    /\ Len(blocks) >= 2
    /\ \E i \in 1..Len(blocks) : \E news \in TamperedNews(blocks[i].news) :
          /\ blocks' = [ blocks EXCEPT ![i].news = news ]
          /\ tampered' = i
    /\ result' = Ret("tamper", "none", <<>>)
    /\ UNCHANGED <<sent_news, pending, files, now, booted, faults, mine_pc, auto_pc>>

\* the ledger after one edit of block i: its news, its previous or its
\* blockhash (to a foreign digest, to the digest of the block before or
\* after it, or to the block hash of its present iHash values)
EditedBlocks(bs, i) ==
    { [ bs EXCEPT ![i].news = news ] : news \in TamperedNews(bs[i].news) }
    \cup { [ bs EXCEPT ![i].previous = h ] :
              h \in {None, SHA256(<<SHA256(TamperText)>>)}
                    \cup { bs[j].blockhash : j \in 1..Len(bs) } }
    \cup { [ bs EXCEPT ![i].blockhash = h ] :
              h \in { SHA256(<<SHA256(TamperText)>>),
                      compute_block_hash([ k \in 1..Len(bs[i].news) |->
                                             bs[i].news[k].iHash ]) } }

\* up to MaxEdits edits in a row of the ledger in memory, as if blocks.json
\* had been edited and loaded
Edit ==
    /\ booted
    /\ Len(blocks) >= 2
    /\ result.op # "verify"
    /\ result.op = "edit" => result.ret < MaxEdits
    /\ \E i \in 1..Len(blocks) : \E bs \in EditedBlocks(blocks, i) :
          /\ bs # blocks
          /\ blocks' = bs
          /\ tampered' = i
    /\ result' = Ret("edit", IF result.op = "edit" THEN result.ret + 1 ELSE 1, <<>>)
    /\ UNCHANGED <<sent_news, pending, files, now, booted, faults, mine_pc, auto_pc>>

----------------------------------------------------------------------------
(* compute_block_hash on its own: a digest list, then a reordering of it *)

\* the digests create_iHash gives the items of the environment
ItemDigests ==
    { create_iHash(it.title, it.link, it.source, it.published) :
        it \in FeedItems \cup SubmitItems }

DigestLists == SeqsUpTo(ItemDigests, MaxDigests)

\* the reorderings of a list
Reorderings(s) ==
    { [ i \in 1..Len(s) |-> s[p[i]] ] :
        p \in { q \in [1..Len(s) -> 1..Len(s)] :
                  \A i, j \in 1..Len(s) : q[i] = q[j] => i = j } }

\* compute_block_hash(iHashes) on the list at hand
hash_block ==
    /\ result.op = "digests"
    /\ result' = Ret("block_hash", compute_block_hash(result.arg), result.arg)
    /\ UNCHANGED <<stores, files, now, booted, faults, mine_pc, auto_pc, tampered>>

\* compute_block_hash on a reordering of the list just hashed
hash_reordered ==
    /\ result.op = "block_hash"
    /\ \E p \in Reorderings(result.arg) :
          result' = Ret("block_hash_again", compute_block_hash(p), p)
    /\ UNCHANGED <<stores, files, now, booted, faults, mine_pc, auto_pc, tampered>>

----------------------------------------------------------------------------
(* Specifications *)

InitWith(f) ==
    /\ blocks = <<>>
    /\ sent_news = EmptyMap
    /\ pending = <<>>
    /\ file_sent = <<>>
    /\ file_pending = <<>>
    /\ file_blocks = <<>>
    /\ now = 0
    /\ booted = FALSE
    /\ faults = f
    /\ mine_pc = "idle"
    /\ auto_pc = "idle"
    /\ tampered = 0
    /\ result = Ret("none", "none", <<>>)

\* the core operations, every save succeeding
Init == InitWith(0)

Next ==
    \/ init_storage /\ UNCHANGED tampered
    \/ \E it \in SubmitItems : submit(it) /\ UNCHANGED tampered
    \/ \E items \in CandidateLists, max_news \in 0..MaxNewsArg :
          Mine(items, max_news) /\ UNCHANGED tampered
    \/ verify /\ UNCHANGED tampered
    \/ \E n \in 0..MaxBlocks : block(n) /\ UNCHANGED tampered
    \/ stats_cmd /\ UNCHANGED tampered
    \/ Tick /\ UNCHANGED tampered

Spec == Init /\ [][Next]_vars

\* the core operations, with saves that fail
InitFaults == InitWith(MaxFaults)

NextFaults ==
    \/ init_storage /\ UNCHANGED tampered
    \/ \E it \in SubmitItems : submit(it) /\ UNCHANGED tampered
    \/ \E items \in RssLists : Mine(items, MINE_MAX_NEWS) /\ UNCHANGED tampered
    \/ Tick /\ UNCHANGED tampered

SpecFaults == InitFaults /\ [][NextFaults]_vars

\* the handlers and the job, interleaved at their awaits
NextHandlers ==
    \/ init_storage /\ UNCHANGED tampered
    \/ \E it \in SubmitItems : submit(it) /\ UNCHANGED tampered
    \/ mine_begin /\ UNCHANGED tampered
    \/ \E rss \in RssLists : mine(rss) /\ UNCHANGED tampered
    \/ mine_end /\ UNCHANGED tampered
    \/ \E rss \in RssLists : auto_mine_job(rss) /\ UNCHANGED tampered
    \/ auto_mine_end /\ UNCHANGED tampered
    \/ Tick /\ UNCHANGED tampered

SpecHandlers == Init /\ [][NextHandlers]_vars

\* the core operations, then one edit of the ledger, then /verify
NextTamper ==
    \/ tampered = 0 /\ init_storage /\ UNCHANGED tampered
    \/ tampered = 0 /\ UNCHANGED tampered /\ \E it \in SubmitItems : submit(it)
    \/ tampered = 0 /\ UNCHANGED tampered
          /\ \E items \in CandidateLists, max_news \in 0..MaxNewsArg : Mine(items, max_news)
    \/ Tamper
    \/ verify /\ UNCHANGED tampered

SpecTamper == Init /\ [][NextTamper]_vars

\* the core operations around the time to live of the dedup index
NextExpiry ==
    \/ init_storage /\ UNCHANGED tampered
    \/ \E it \in SubmitItems : submit(it) /\ UNCHANGED tampered
    \/ \E items \in RssLists : Mine(items, MINE_MAX_NEWS) /\ UNCHANGED tampered
    \/ \E d \in ExpirySteps : Wait(d) /\ UNCHANGED tampered

SpecExpiry == Init /\ [][NextExpiry]_vars

\* the bare links are submitted in one order (they differ in nothing else);
\* the two parsed feeds are submitted at any time
QueueTurn(it) ==
    it.link \in QueueLinks =>
        \A l \in QueueLinks :
            l[1] < it.link[1] => l \in Links(pending) \cup DOMAIN sent_news

\* a queue of submissions and the two mining triggers
NextQueue ==
    \/ init_storage /\ UNCHANGED tampered
    \/ \E it \in QueueItems : QueueTurn(it) /\ submit(it) /\ UNCHANGED tampered
    \/ mine_begin /\ UNCHANGED tampered
    \/ \E rss \in QueueFeeds : mine(rss) /\ UNCHANGED tampered
    \/ mine_end /\ UNCHANGED tampered
    \/ \E rss \in QueueFeeds : auto_mine_job(rss) /\ UNCHANGED tampered
    \/ auto_mine_end /\ UNCHANGED tampered

SpecQueue == Init /\ [][NextQueue]_vars

\* the core operations on candidates with long titles
NextLong ==
    \/ init_storage /\ UNCHANGED tampered
    \/ \E it \in SubmitItems : submit(it) /\ UNCHANGED tampered
    \/ \E items \in LongLists, max_news \in 1..MaxNewsArg :
          Mine(items, max_news) /\ UNCHANGED tampered
    \/ verify /\ UNCHANGED tampered

SpecLong == Init /\ [][NextLong]_vars

\* mining passes, then edits of the ledger, then /verify
NextEdit ==
    \/ tampered = 0 /\ init_storage /\ UNCHANGED tampered
    \/ tampered = 0 /\ UNCHANGED tampered
          /\ \E items \in CandidateLists : Mine(items, MINE_MAX_NEWS)
    \/ Edit
    \/ verify /\ UNCHANGED tampered

SpecEdit == Init /\ [][NextEdit]_vars

\* the core operations and every query
NextQueries ==
    \/ init_storage /\ UNCHANGED tampered
    \/ \E it \in SubmitItems : submit(it) /\ UNCHANGED tampered
    \/ \E items \in RssLists : Mine(items, MINE_MAX_NEWS) /\ UNCHANGED tampered
    \/ verify /\ UNCHANGED tampered
    \/ \E n \in 0..MaxBlocks : block(n) /\ UNCHANGED tampered
    \/ stats_cmd /\ UNCHANGED tampered
    \/ hash_cmd /\ UNCHANGED tampered
    \/ proof /\ UNCHANGED tampered
    \/ status /\ UNCHANGED tampered

SpecQueries == Init /\ [][NextQueries]_vars

\* submissions, a long title among them, and the two mining triggers
NextSubmit ==
    \/ init_storage /\ UNCHANGED tampered
    \/ \E it \in SubmitItems \cup {ItemLong} : submit(it) /\ UNCHANGED tampered
    \/ mine_begin /\ UNCHANGED tampered
    \/ \E rss \in QueueFeeds : mine(rss) /\ UNCHANGED tampered
    \/ mine_end /\ UNCHANGED tampered
    \/ \E rss \in QueueFeeds : auto_mine_job(rss) /\ UNCHANGED tampered
    \/ auto_mine_end /\ UNCHANGED tampered

SpecSubmit == Init /\ [][NextSubmit]_vars

\* the queue of submissions with the auto-mine job run again and again: the
\* job is scheduled at a fixed interval, /submit comes when users send it
\* the job has something to mine: a pending entry is never in the dedup
\* index, so the first one is selected whatever the feeds return
auto_mine_due ==
    /\ booted
    /\ auto_pc = "idle"
    /\ pending # <<>>
    /\ Len(blocks) < MaxBlocks

\* the queue of submissions and the auto-mine job
NextFifo ==
    \/ init_storage /\ UNCHANGED tampered
    \/ \E it \in QueueItems : QueueTurn(it) /\ submit(it) /\ UNCHANGED tampered
    \/ \E rss \in QueueFeeds : auto_mine_job(rss) /\ UNCHANGED tampered
    \/ auto_mine_end /\ UNCHANGED tampered

\* a step of auto_mine_job that builds a block is the only step that takes
\* auto_pc from "idle" to "send"
SpecFifo ==
    /\ Init
    /\ [][NextFifo]_vars
    /\ WF_auto_pc(auto_mine_due /\ auto_pc' = "send")
    /\ WF_vars(auto_mine_end /\ UNCHANGED tampered)

\* mining passes over many sources, and /stats
NextStats ==
    \/ init_storage /\ UNCHANGED tampered
    \/ \E items \in StatsLists : Mine(items, MINE_MAX_NEWS) /\ UNCHANGED tampered
    \/ stats_cmd /\ UNCHANGED tampered

SpecStats == Init /\ [][NextStats]_vars

\* compute_block_hash applied to every digest list, then to a reordering
InitHash ==
    /\ blocks = <<>>
    /\ sent_news = EmptyMap
    /\ pending = <<>>
    /\ file_sent = <<>>
    /\ file_pending = <<>>
    /\ file_blocks = <<>>
    /\ now = 0
    /\ booted = FALSE
    /\ faults = 0
    /\ mine_pc = "idle"
    /\ auto_pc = "idle"
    /\ tampered = 0
    /\ \E ds \in DigestLists : result = Ret("digests", "none", ds)

NextHash ==
    \/ hash_block
    \/ hash_reordered

SpecHash == InitHash /\ [][NextHash]_vars

----------------------------------------------------------------------------
(* Properties *)

IHashes(b) == [ k \in 1..Len(b.news) |-> b.news[k].iHash ]

IsPrefix(s, t) == Len(s) <= Len(t) /\ SubSeq(t, 1, Len(s)) = s

\* C1: in every state reached from the seeded genesis, every block after
\* the first has previous equal to the blockhash of the block before it,
\* every block's blockhash is the block hash of the iHash values of its own
\* news, and verify_chain returns True.
C1_ChainValid ==
    booted =>
      /\ \A i \in 2..Len(blocks) : blocks[i].previous = blocks[i-1].blockhash
      /\ \A i \in 1..Len(blocks) :
            blocks[i].blockhash = compute_block_hash(IHashes(blocks[i]))
      /\ verify_chain(blocks)

C1_Witness ==
    /\ Len(blocks) = 3
    /\ blocks[3].previous = blocks[2].blockhash
    /\ blocks[3].previous # blocks[2].previous
    /\ result.op = "verify" /\ result.ret = TRUE

\* C2: the block at position i of the ledger (counted from 0) carries
\* block_number i, and /block i returns it: genesis 0, first mined 1,
\* second mined 2.
C2_BlockNumbers ==
    \A i \in 1..Len(blocks) :
        /\ blocks[i].block_number = i - 1
        /\ block_cmd(blocks, i - 1) = blocks[i]

\* C3: once the news of one block has been edited without recomputing its
\* blockhash, verify_chain returns False and the block it stops at is the
\* edited block.
C3_TamperDetected ==
    tampered # 0 =>
      /\ ~verify_chain(blocks)
      /\ verify_failed_at(blocks) = tampered

\* C4: a /submit of a link that is pending answers AlreadyPending, a /submit
\* of a link in the dedup index answers AlreadyBroadcast, and in both cases
\* the pending map, the dedup index and the ledger are unchanged.
C4_SubmitRejectsDuplicates ==
    [][ result'.op = "submit" =>
          LET link == result'.arg IN
          /\ link \in Links(pending) => result'.ret = "AlreadyPending"
          /\ link \in DOMAIN sent_news => result'.ret = "AlreadyBroadcast"
          /\ (link \in Links(pending) \/ link \in DOMAIN sent_news)
                => UNCHANGED <<pending, sent_news, blocks>>
          /\ result'.ret \in {"AlreadyPending", "AlreadyBroadcast"}
                => UNCHANGED <<pending, sent_news, blocks>> ]_vars

C4_Witness ==
    /\ result.op = "submit"
    /\ result.ret = "AlreadyPending"
    /\ result.arg \in Links(pending)
    /\ DOMAIN sent_news # {}

\* C5: when a mining pass returns a block, exactly one block is appended,
\* every link of its news is in the dedup index stamped with the block's
\* timestamp, none of those links is still pending, and the pending entries
\* with other links are still pending.
C5_MineUpdatesStores ==
    [][ (result'.op = "mine" /\ result'.ret = "Block") =>
          /\ Len(blocks') = Len(blocks) + 1
          /\ IsPrefix(blocks, blocks')
          /\ LET b == blocks'[Len(blocks')] IN
              /\ b.news # <<>>
              /\ \A l \in Links(b.news) :
                    /\ l \in DOMAIN sent_news'
                    /\ sent_news'[l] = b.timestamp
                    /\ l \notin Links(pending')
              /\ \A i \in 1..Len(pending) :
                    pending[i].link \notin Links(b.news)
                      => \E j \in 1..Len(pending') : pending'[j] = pending[i] ]_vars

C5_Witness ==
    /\ result.op = "mine"
    /\ result.ret = "Block"
    /\ result.arg[3] >= 1
    /\ pending # <<>>
    /\ now > 0

\* the positions of the candidates that are eligible: link not in the dedup
\* index, iHash not that of an eligible candidate before it
RECURSIVE EligibleFrom(_, _, _, _)
EligibleFrom(items, i, seen, sentLinks) ==
    IF i > Len(items) THEN <<>>
    ELSE LET ih == SHA256(items[i].title \o items[i].link
                          \o items[i].source \o items[i].published)
         IN  IF items[i].link \in sentLinks \/ ih \in seen
             THEN EligibleFrom(items, i + 1, seen, sentLinks)
             ELSE <<i>> \o EligibleFrom(items, i + 1, seen \cup {ih}, sentLinks)

\* C6: a mining pass selects exactly the first min(maxNews, number of
\* eligible candidates) eligible candidates, in the order given; a block's
\* news is non-empty and no longer than maxNews; an eligible candidate that
\* was not selected is still absent from the dedup index afterwards.
C6_SelectsFirstEligible ==
    [][ result'.op = "mine" =>
          LET items == result'.arg[1]
              max_news == result'.arg[2]
              elig == EligibleFrom(items, 1, {}, DOMAIN sent_news)
              want == SubSeq(elig, 1, Min(max_news, Len(elig)))
          IN  IF want = <<>>
              THEN result'.ret = "NoBlock" /\ blocks' = blocks
              ELSE /\ result'.ret = "Block"
                   /\ Len(blocks') = Len(blocks) + 1
                   /\ LET news == blocks'[Len(blocks')].news IN
                       /\ Len(news) = Len(want)
                       /\ Len(news) >= 1 /\ Len(news) <= max_news
                       /\ \A k \in 1..Len(want) :
                             /\ news[k].link = items[want[k]].link
                             /\ news[k].source = items[want[k]].source
                             /\ news[k].published = items[want[k]].published
                   /\ \A k \in (Len(want) + 1)..Len(elig) :
                         items[elig[k]].link \notin DOMAIN sent_news' ]_vars

\* C7: a mining pass over candidates whose links are all in the dedup index
\* (or over no candidates) returns NoBlock and leaves the ledger, the dedup
\* index, the pending map and the next block number as they were.
C7_NoBlockFrame ==
    [][ (result'.op = "mine"
         /\ \A i \in 1..Len(result'.arg[1]) :
               result'.arg[1][i].link \in DOMAIN sent_news) =>
          /\ result'.ret = "NoBlock"
          /\ UNCHANGED <<blocks, sent_news, pending>>
          /\ next_block_number(blocks') = next_block_number(blocks) ]_vars

C7_Witness ==
    /\ result.op = "mine"
    /\ result.ret = "NoBlock"
    /\ Len(result.arg[1]) = 2
    /\ result.arg[2] >= 1
    /\ pending # <<>>

\* C8: after any loads, submissions and mining passes the first block is the
\* fixed genesis block and no later block is a genesis block; a load seeds
\* it only when the loaded ledger is empty, and a load of a non-empty ledger
\* keeps that ledger as it is.
C8_GenesisFixed ==
    [][ /\ booted' =>
            /\ blocks' # <<>>
            /\ blocks'[1].block_number = 0
            /\ blocks'[1].previous = None
            /\ blocks'[1] = create_genesis_block
            /\ \A i \in 2..Len(blocks') :
                  blocks'[i].block_number # 0 /\ blocks'[i].previous # None
        /\ result'.op = "load" =>
            LET loaded == IF file_blocks = <<>> THEN <<>> ELSE file_blocks[1] IN
            IF loaded = <<>>
            THEN blocks' = <<create_genesis_block>>
            ELSE blocks' = loaded
        /\ (booted /\ result'.op # "load") => blocks'[1] = blocks[1] ]_vars

C8_Witness ==
    /\ result.op = "load"
    /\ result.ret = "loaded"
    /\ Len(blocks) = 3
    /\ blocks[1] = create_genesis_block
    /\ faults = 0

\* C9 as stated: under any interleaving of the /mine handler, the auto-mine
\* job and /submit, no two blocks have the same block_number and no two
\* blocks have the same previous hash.
C9_NoSharedNumberOrPrevious ==
    \A i, j \in 1..Len(blocks) :
        i < j => /\ blocks[i].block_number # blocks[j].block_number
                 /\ blocks[i].previous # blocks[j].previous

\* C9 as amended: under any interleaving of the /mine handler, the auto-mine
\* job and /submit, no two blocks have the same block_number, every block's
\* previous is the blockhash of the block just before it, a step that
\* appends a block checks the dedup index and writes it in that same step
\* (the links of the new block were absent before it and are present and
\* not pending after it), and a /submit changes neither the ledger nor the
\* dedup index.
C9_MiningAtomic ==
    [][ /\ \A i, j \in 1..Len(blocks') :
              i < j => blocks'[i].block_number # blocks'[j].block_number
        /\ \A i \in 2..Len(blocks') : blocks'[i].previous = blocks'[i-1].blockhash
        /\ (booted /\ blocks' # blocks) =>
              /\ result'.op \in {"mine", "auto_mine"}
              /\ Len(blocks') = Len(blocks) + 1
              /\ IsPrefix(blocks, blocks')
              /\ \A l \in Links(blocks'[Len(blocks')].news) :
                    /\ l \notin DOMAIN sent_news
                    /\ l \in DOMAIN sent_news'
                    /\ l \notin Links(pending')
        /\ Links(pending') \cap DOMAIN sent_news' = {}
        /\ result'.op = "submit" => UNCHANGED <<blocks, sent_news>> ]_vars

C9_Witness ==
    /\ mine_pc = "reply"
    /\ auto_pc = "send"
    /\ Len(blocks) = 3
    /\ result.op = "mine"
    /\ result.ret = "Block"

\* C10: every operation leaves the blocks of the ledger unchanged and in
\* place; only a mining pass that returns a block grows the ledger, by one
\* block at the end; a load of a non-empty ledger changes nothing.
C10_AppendOnly ==
    [][ booted =>
          /\ IsPrefix(blocks, blocks')
          /\ Len(blocks') <= Len(blocks) + 1
          /\ blocks' # blocks =>
                /\ result'.op = "mine" /\ result'.ret = "Block"
                /\ Len(blocks') = Len(blocks) + 1
          /\ (result'.op = "mine" /\ result'.ret = "Block")
                => Len(blocks') = Len(blocks) + 1
          /\ result'.op \in {"submit", "verify", "block", "stats", "load"}
                => blocks' = blocks ]_vars

C10_Witness ==
    /\ Len(blocks) = 3
    /\ result.op = "load"
    /\ result.ret = "loaded"
    /\ now > 0

\* C11: compute_block_hash is permutation-invariant: applied to any
\* reordering of a list of item digests it returns the digest it returned
\* for the list itself, so a block built from the same digests in another
\* insertion order gets the same blockhash.
C11_PermutationInvariant ==
    [][ result'.op = "block_hash_again" =>
          /\ result'.arg \in Reorderings(result.arg)
          /\ result'.ret = result.ret
          /\ assemble_block([selected |-> <<ItemA>>, iHashes |-> result'.arg],
                            blocks, sent_news, pending, now).block.blockhash
               = result.ret ]_vars

C11_Witness ==
    /\ result.op = "block_hash_again"
    /\ Len(result.arg) = 3
    /\ result.arg[1] # result.arg[2]
    /\ result.arg[2] # result.arg[3]
    /\ result.arg[1] # result.arg[3]
    /\ result.arg # sorted(result.arg)

\* C12: expiry of the dedup index happens at load and only at load: after a
\* load every entry of the stored index older than TTL_DAYS days is absent
\* and every entry younger than TTL_DAYS days is there with its stamp, the
\* pruned index is written back, and no other operation removes an entry.
C12_ExpiryAtLoad ==
    [][ /\ result'.op = "load" =>
            LET loaded == IF file_sent = <<>> THEN EmptyMap ELSE file_sent[1] IN
            /\ \A k \in DOMAIN loaded :
                  /\ now - loaded[k] > TTL_DAYS * TicksPerDay
                        => k \notin DOMAIN sent_news'
                  /\ now - loaded[k] < TTL_DAYS * TicksPerDay
                        => k \in DOMAIN sent_news' /\ sent_news'[k] = loaded[k]
            /\ DOMAIN sent_news' \subseteq DOMAIN loaded
            /\ file_sent' = <<sent_news'>>
        /\ result'.op # "load" =>
            \A k \in DOMAIN sent_news : k \in DOMAIN sent_news' ]_vars

\* C13: a failed save never aborts or rolls back an operation: a mining
\* pass that selects something appends its block, stamps its links in the
\* dedup index, drops them from the pending map and returns the block, and
\* a /submit of a new link inserts it and answers Pending, whether or not a
\* save failed in that step; and as long as no save has failed, after every
\* operation the three files hold the three stores.
C13_SaveFailureSwallowed ==
    [][ /\ (result'.op = "mine" /\ result'.arg[1] # <<>>
             /\ \E i \in 1..Len(result'.arg[1]) :
                   result'.arg[1][i].link \notin DOMAIN sent_news) =>
              /\ result'.ret = "Block"
              /\ Len(blocks') = Len(blocks) + 1
              /\ IsPrefix(blocks, blocks')
              /\ \A l \in Links(blocks'[Len(blocks')].news) :
                    /\ l \in DOMAIN sent_news'
                    /\ l \notin Links(pending')
        /\ (result'.op = "submit"
             /\ result'.arg \notin DOMAIN sent_news
             /\ result'.arg \notin Links(pending)) =>
              /\ result'.ret = "Pending"
              /\ Len(pending') = Len(pending) + 1
              /\ pending'[Len(pending')].link = result'.arg
        /\ (booted' /\ faults' = MaxFaults) =>
              /\ file_blocks' = <<blocks'>>
              /\ file_sent' = <<sent_news'>>
              /\ file_pending' = <<pending'>> ]_vars

C13_Witness ==
    /\ result.op = "mine"
    /\ result.ret = "Block"
    /\ faults < MaxFaults
    /\ Len(blocks) = 3
    /\ file_blocks # <<blocks>>
    /\ file_blocks # <<>>
    /\ file_sent = <<sent_news>>

\* C14 as stated: whenever the pending map holds p >= 1 entries, a mining
\* pass of either trigger returns a block whose first min(p, 5) entries are
\* the first pending submissions in submission order, and the block holds a
\* feed item only if fewer than 5 entries were pending.
C14_PendingFirstAlways ==
    [][ (result'.op \in {"mine", "auto_mine"} /\ Len(pending) >= 1) =>
          /\ result'.ret = "Block"
          /\ LET news == blocks'[Len(blocks')].news
                 n == Min(Len(pending), MINE_MAX_NEWS)
             IN  /\ Len(news) >= n
                 /\ \A k \in 1..n : news[k].link = pending[k].link
                 /\ (\E k \in 1..Len(news) : news[k].link \notin Links(pending))
                       => Len(pending) < MINE_MAX_NEWS ]_vars

\* the pending entries whose title + link + source + published text is not
\* that of an entry submitted before them
FirstOfText(pend) ==
    SelectSeq(pend, LAMBDA e :
        \A j \in 1..Len(pend) :
            (pend[j].title \o pend[j].link \o pend[j].source \o pend[j].published
               = e.title \o e.link \o e.source \o e.published)
            => \A i \in 1..Len(pend) : pend[i] = e => j >= i)

\* C14 as amended: both triggers present every pending submission before
\* any feed item; with p >= 1 pending entries of which q have a title + link
\* + source + published text not submitted before them, the pass returns a
\* block whose first min(q, 5) entries are the first of those q submissions
\* in submission order, and the block holds a feed item only if q < 5.
C14_PendingFirst ==
    [][ (result'.op \in {"mine", "auto_mine"} /\ Len(pending) >= 1) =>
          /\ result'.ret = "Block"
          /\ LET news == blocks'[Len(blocks')].news
                 first == FirstOfText(pending)
                 n == Min(Len(first), MINE_MAX_NEWS)
             IN  /\ Len(news) >= n
                 /\ n >= 1
                 /\ \A k \in 1..n :
                       /\ news[k].link = first[k].link
                       /\ news[k].title = first[k].title
                       /\ news[k].iHash = first[k].iHash
                 /\ \A k \in (n + 1)..Len(news) : news[k].link \notin Links(pending)
                 /\ Len(news) > n => Len(first) < MINE_MAX_NEWS ]_vars

C14_Witness ==
    /\ result.op = "auto_mine"
    /\ result.ret = "Block"
    /\ Len(blocks[Len(blocks)].news) = MINE_MAX_NEWS
    /\ result.arg[3] = MINE_MAX_NEWS
    /\ Len(result.arg[1]) > MINE_MAX_NEWS
    /\ \A i \in 1..Len(result.arg[1]) : result.arg[1][i].link # ItemB.link
    /\ pending # <<>>

\* C15: for every entry of every block of the ledger, the entry's iHash is
\* create_iHash of the title, link, source and published stored in that
\* entry, whatever the length of the candidate's title.
C15_IHashRecomputable ==
    \A i \in 1..Len(blocks) : \A k \in 1..Len(blocks[i].news) :
        LET e == blocks[i].news[k] IN
        e.iHash = SHA256(e.title \o e.link \o e.source \o e.published)

\* the positions after the first whose block fails a check of verify_chain
FailingBlocks(bs) ==
    { i \in 2..Len(bs) :
        \/ bs[i].previous # bs[i-1].blockhash
        \/ bs[i].blockhash # compute_block_hash(IHashes(bs[i])) }

\* C16: on every ledger, edited ones included, verify_chain returns True
\* exactly when the ledger has at most one block or every block after the
\* first has previous equal to the blockhash of the block before it and
\* blockhash equal to the block hash of its own iHash values; when it
\* returns False it has stopped at the first block that fails either check.
C16_VerifyExact ==
    result.op = "verify" =>
      /\ result.ret = (Len(blocks) <= 1 \/ FailingBlocks(blocks) = {})
      /\ result.ret = FALSE =>
            /\ result.arg \in FailingBlocks(blocks)
            /\ \A i \in FailingBlocks(blocks) : result.arg <= i
      /\ result.ret = TRUE => result.arg = 0

C16_Witness ==
    /\ result.op = "verify"
    /\ result.ret = FALSE
    /\ Len(blocks) = 3
    /\ result.arg = 2
    /\ FailingBlocks(blocks) = {2, 3}
    /\ blocks[2].previous = blocks[1].blockhash
    /\ blocks[3].blockhash = compute_block_hash(IHashes(blocks[3]))

\* C17: /verify, /stats, /block, /hash, /proof and /status are read-only:
\* in every reachable state each of them leaves the ledger, the dedup index
\* and the pending map, and the three files, as they were.
C17_QueriesReadOnly ==
    [][ result'.op \in {"verify", "stats", "block", "hash", "proof", "status"} =>
          /\ blocks' = blocks
          /\ sent_news' = sent_news
          /\ pending' = pending
          /\ UNCHANGED files ]_vars

C17_Witness ==
    /\ result.op = "status"
    /\ result.ret.pending >= 1
    /\ result.ret.history >= 1
    /\ result.ret.blocks = 3
    /\ pending # <<>>

\* C18: a /submit of a link that is neither in the dedup index nor pending
\* answers Pending and adds exactly one pending entry, keyed by that link
\* and carrying create_iHash of its title, link, source and published; the
\* other pending entries, the dedup index and the ledger are unchanged; and
\* when /mine or the auto-mine job later mines a pending entry, the ledger
\* entry carries the iHash stored in the pending entry.
C18_SubmitInserts ==
    [][ /\ (result'.op = "submit"
             /\ result'.arg \notin DOMAIN sent_news
             /\ result'.arg \notin Links(pending)) =>
              /\ result'.ret = "Pending"
              /\ Len(pending') = Len(pending) + 1
              /\ IsPrefix(pending, pending')
              /\ LET e == pending'[Len(pending')] IN
                    /\ e.link = result'.arg
                    /\ e.iHash = SHA256(e.title \o e.link \o e.source \o e.published)
              /\ UNCHANGED <<blocks, sent_news>>
        /\ (result'.op \in {"mine", "auto_mine"} /\ result'.ret = "Block") =>
              LET news == blocks'[Len(blocks')].news IN
              /\ \A k \in 1..Len(news) : \A i \in 1..Len(pending) :
                    pending[i].link = news[k].link
                       => news[k].iHash = pending[i].iHash
              /\ \A i \in 1..Len(pending) :
                    pending[i].link \notin Links(pending')
                       => pending[i].link \in Links(news) ]_vars

C18_Witness ==
    /\ result.op = "submit"
    /\ result.ret = "Pending"
    /\ Len(pending) >= 2
    /\ pending[Len(pending)].link = result.arg
    /\ \E i \in 2..Len(blocks) : \E k \in 1..Len(blocks[i].news) :
          /\ blocks[i].news[k].link = ItemLong.link
          /\ Len(blocks[i].news[k].title) = TITLE_MAX

\* C19: in every state reached from an empty start by loads, submissions
\* and mining passes, no link is both in the pending map and in the dedup
\* index.
C19_PendingDedupDisjoint ==
    Links(pending) \cap DOMAIN sent_news = {}

\* C20: while no entry of the dedup index is pruned, after any submissions
\* and mining passes no link is in the news of two different blocks of the
\* ledger, the genesis block included.
C20_NoLinkInTwoBlocks ==
    \A i, j \in 1..Len(blocks) :
        i < j => Links(blocks[i].news) \cap Links(blocks[j].news) = {}

\* C21: within every block built by a mining pass, whatever the candidate
\* list (the same link under several titles or sources included), the news
\* entries have pairwise distinct links.
C21_DistinctLinksInBlock ==
    \A i \in 1..Len(blocks) : \A k, l \in 1..Len(blocks[i].news) :
        k < l => blocks[i].news[k].link # blocks[i].news[l].link

\* the text create_iHash hashes for a pending entry
TextOf(e) == e.title \o e.link \o e.source \o e.published

\* the mining passes that mine the pending entry at position i at the
\* latest: one for every 5 entries up to it, and one for every entry before
\* it with its text
PassesFor(pend, i) ==
    ((i + (MINE_MAX_NEWS - 1)) \div MINE_MAX_NEWS)
    + Cardinality({ j \in 1..(i - 1) : TextOf(pend[j]) = TextOf(pend[i]) })

\* C22 as stated, its ordering part: in a pass of the auto-mine job no
\* pending entry is mined while an entry submitted before it is left
\* pending.
C22_FifoAlways ==
    [][ (result'.op = "auto_mine" /\ result'.ret = "Block") =>
          \A i, j \in 1..Len(pending) :
              (i < j /\ pending[j].link \in Links(blocks'[Len(blocks')].news))
                 => pending[i].link \in Links(blocks'[Len(blocks')].news) ]_vars

\* C22 as amended: pending submissions are mined first in, first out and
\* never starve, but for repeats of a text: a pass of the job leaves an entry
\* pending while it mines one submitted after it only if the entry left has
\* the text of an entry before it, mined in that pass; the entries left
\* keep their order; and with the auto-mine job run again and again, an
\* entry with k entries before it, r of them with its text, is in a block
\* within ceil((k+1)/5) + r passes that build a block.
C22_Fifo ==
    /\ [][ (result'.op = "auto_mine" /\ result'.ret = "Block") =>
            LET mined == Links(blocks'[Len(blocks')].news) IN
            /\ \A i, j \in 1..Len(pending) :
                  (i < j /\ pending[j].link \in mined /\ pending[i].link \notin mined)
                     => \E h \in 1..(i - 1) :
                           /\ TextOf(pending[h]) = TextOf(pending[i])
                           /\ pending[h].link \in mined
            /\ pending' = SelectSeq(pending, LAMBDA e : e.link \notin mined) ]_vars
    /\ \A l \in { it.link : it \in QueueItems } :
          (booted /\ \E i \in 1..Len(pending) :
                        /\ pending[i].link = l
                        /\ Len(blocks) + PassesFor(pending, i) <= MaxBlocks)
            ~> (\E b \in 1..Len(blocks) : l \in Links(blocks[b].news))

C22_Witness ==
    /\ result.op = "auto_mine"
    /\ result.ret = "Block"
    /\ Len(blocks) = 3
    /\ Len(blocks[2].news) = MINE_MAX_NEWS
    /\ ItemA.link \in Links(blocks[2].news)
    /\ ItemB.link \in Links(blocks[3].news)
    /\ Len(blocks[3].news) >= 2
    /\ pending = <<>>

\* the places of the news entries of a ledger, and their reading order
EntryPlaces(bs) ==
    UNION { { <<i, k>> : k \in 1..Len(bs[i].news) } : i \in 1..Len(bs) }

PlaceBefore(p, q) == p[1] < q[1] \/ (p[1] = q[1] /\ p[2] < q[2])

\* the place where a source is first met
FirstPlace(bs, src) ==
    CHOOSE p \in EntryPlaces(bs) :
        /\ bs[p[1]].news[p[2]].source = src
        /\ \A q \in EntryPlaces(bs) :
              bs[q[1]].news[q[2]].source = src => (q = p \/ PlaceBefore(p, q))

\* C23: on every ledger /stats counts, for each source, the news entries
\* of all blocks (genesis included) that carry it, each source once, so the
\* counts sum to the number of entries of the ledger; and it lists the
\* sources by count, largest first, sources of one count in the order they
\* are first met, and at most STATS_TOP of them.
C23_StatsExact ==
    result.op = "stats" =>
      LET stats == result.ret
          top == result.arg.top
          places == EntryPlaces(blocks)
          srcs == { blocks[p[1]].news[p[2]].source : p \in places }
          Ahead(a, b) ==
              \/ a[2] > b[2]
              \/ a[2] = b[2]
                   /\ PlaceBefore(FirstPlace(blocks, a[1]), FirstPlace(blocks, b[1]))
      IN  /\ { stats[x][1] : x \in 1..Len(stats) } = srcs
          /\ Len(stats) = Cardinality(srcs)
          /\ \A x \in 1..Len(stats) :
                stats[x][2] = Cardinality({ p \in places :
                                  blocks[p[1]].news[p[2]].source = stats[x][1] })
          /\ result.arg.total = Cardinality(places)
          /\ Len(top) = Min(STATS_TOP, Len(stats))
          /\ Range(top) \subseteq Range(stats)
          /\ \A a, b \in 1..Len(top) : a < b => Ahead(top[a], top[b])
          /\ \A x \in 1..Len(stats) :
                stats[x] \notin Range(top)
                   => \A a \in 1..Len(top) : Ahead(top[a], stats[x])

C23_Witness ==
    /\ result.op = "stats"
    /\ Len(result.ret) > STATS_TOP
    /\ Len(result.arg.top) = STATS_TOP
    /\ result.arg.total = Len(result.ret)
    /\ Len(blocks) = 3

====
